---- MODULE Spec2Model ----
(***************************************************************************)
(* State-machine model of the dependency checker (src/main.py): the loop   *)
(* of main over the manifest's dependencies, the two registry adapters     *)
(* (check_pypi_updates, check_npm_updates), the metadata extraction and    *)
(* the final report.                                                       *)
(*                                                                         *)
(* Strings are sequences of one-character strings, so that the regular     *)
(* expressions, lstrip, split, startswith, join and the sort keys of the   *)
(* source are computed character by character.                             *)
(***************************************************************************)
EXTENDS Integers, Sequences, FiniteSets

VARIABLES is_npm, deps, registry, idx, outdated, warnings, stderr, stdout,
          requests, pc

vars == <<is_npm, deps, registry, idx, outdated, warnings, stderr, stdout,
          requests, pc>>

(***************************************************************************)
(* Bounds of the model.                                                    *)
(***************************************************************************)
MaxDeps == 2
MaxSpecLen == 4
MaxRelLen == 2

(***************************************************************************)
(* Characters.                                                             *)
(***************************************************************************)
Digits == {"0", "1", "2", "3", "4", "5", "6", "7", "8", "9"}

LowerLetters ==
  {"a", "b", "c", "d", "e", "f", "g", "h", "i", "j", "k", "l", "m", "n", "o",
   "p", "q", "r", "s", "t", "u", "v", "w", "x", "y", "z"}

UpperLetters ==
  {"A", "B", "C", "D", "E", "F", "G", "H", "I", "J", "K", "L", "M", "N", "O",
   "P", "Q", "R", "S", "T", "U", "V", "W", "X", "Y", "Z"}

Letters == LowerLetters \cup UpperLetters

\* The code points of the characters the model's strings are made of
\* (Python compares strings by code point).
Ord(c) ==
  CASE c = " " -> 32  [] c = "#" -> 35  [] c = "*" -> 42  [] c = "+" -> 43
    [] c = "," -> 44  [] c = "-" -> 45  [] c = "." -> 46  [] c = "/" -> 47
    [] c = "0" -> 48  [] c = "1" -> 49  [] c = "2" -> 50  [] c = "3" -> 51
    [] c = "4" -> 52  [] c = "5" -> 53  [] c = "6" -> 54  [] c = "7" -> 55
    [] c = "8" -> 56  [] c = "9" -> 57  [] c = ":" -> 58  [] c = ";" -> 59
    [] c = "<" -> 60  [] c = "=" -> 61  [] c = ">" -> 62
    [] c = "A" -> 65  [] c = "B" -> 66  [] c = "L" -> 76  [] c = "M" -> 77
    [] c = "P" -> 80  [] c = "^" -> 94  [] c = "_" -> 95
    [] c = "a" -> 97  [] c = "b" -> 98  [] c = "c" -> 99  [] c = "e" -> 101
    [] c = "g" -> 103 [] c = "h" -> 104 [] c = "i" -> 105 [] c = "m" -> 109
    [] c = "n" -> 110 [] c = "o" -> 111 [] c = "r" -> 114 [] c = "s" -> 115
    [] c = "t" -> 116 [] c = "u" -> 117 [] c = "v" -> 118 [] c = "x" -> 120
    [] c = "y" -> 121 [] c = "~" -> 126

\* str.lower() on one character, for the letters the names are made of.
LowerChar(c) ==
  CASE c = "A" -> "a" [] c = "B" -> "b" [] c = "L" -> "l" [] c = "M" -> "m"
    [] c = "P" -> "p" [] OTHER -> c

Lower(s) == [i \in 1..Len(s) |-> LowerChar(s[i])]

\* s < t, as Python orders two strings.
RECURSIVE StrLess(_, _)
StrLess(s, t) ==
  IF t = <<>> THEN FALSE
  ELSE IF s = <<>> THEN TRUE
  ELSE IF Head(s) = Head(t) THEN StrLess(Tail(s), Tail(t))
  ELSE Ord(Head(s)) < Ord(Head(t))

StartsWith(s, p) == Len(s) >= Len(p) /\ SubSeq(s, 1, Len(p)) = p

Drop(s, n) == SubSeq(s, n + 1, Len(s))

\* The length of the longest prefix of s made of characters of the set cs.
RECURSIVE Span(_, _)
Span(s, cs) ==
  IF s # <<>> /\ Head(s) \in cs THEN 1 + Span(Tail(s), cs) ELSE 0

AllIn(s, cs) == \A i \in 1..Len(s) : s[i] \in cs

\* str.lstrip(c): every leading occurrence of the character is removed.
RECURSIVE LStrip(_, _)
LStrip(s, c) ==
  IF s # <<>> /\ Head(s) = c THEN LStrip(Tail(s), c) ELSE s

RECURSIVE RStrip(_, _)
RStrip(s, c) ==
  IF s # <<>> /\ s[Len(s)] = c THEN RStrip(SubSeq(s, 1, Len(s) - 1), c) ELSE s

\* str.strip() for the one whitespace character of the model's strings.
Strip(s) == RStrip(LStrip(s, " "), " ")

\* sep.join(parts)
RECURSIVE Join(_, _)
Join(parts, sep) ==
  IF parts = <<>> THEN <<>>
  ELSE IF Len(parts) = 1 THEN parts[1]
  ELSE parts[1] \o sep \o Join(Tail(parts), sep)

\* The value of a run of decimal digits.
DigitVal(c) == Ord(c) - 48

RECURSIVE ToNat(_)
ToNat(ds) ==
  IF ds = <<>> THEN 0 ELSE 10 * ToNat(SubSeq(ds, 1, Len(ds) - 1)) + DigitVal(ds[Len(ds)])

(***************************************************************************)
(* JSON values of a registry document: a field is absent, null, a number   *)
(* (non-zero), a string, a list of strings, or an object with a "type"     *)
(* member (the structured license of the range backend).                   *)
(***************************************************************************)
Absent == [t |-> "absent", v |-> <<>>]
Null == [t |-> "null", v |-> <<>>]
Num == [t |-> "num", v |-> <<>>]
Str(s) == [t |-> "str", v |-> s]
List(l) == [t |-> "list", v |-> l]
Dict(ty) == [t |-> "dict", v |-> ty]

\* Python truthiness: None, "" and [] are falsy.
Truthy(j) ==
  CASE j.t \in {"absent", "null"} -> FALSE
    [] j.t \in {"num", "dict"} -> TRUE
    [] OTHER -> j.v # <<>>

\* dict.get(key): an absent key reads as None.
Get(j) == IF j.t = "absent" THEN Null ELSE j

\* dict.get(key, default)
GetOr(j, d) == IF j.t = "absent" THEN d ELSE j

(***************************************************************************)
(* Specifier parsing.  A match result is [ok, v]: whether the regular      *)
(* expression matched, and its group 1.                                    *)
(***************************************************************************)
NoMatch == [ok |-> FALSE, v |-> <<>>]
Match(g) == [ok |-> TRUE, v |-> g]

\* \s, for the whitespace the model's strings hold.
Whitespace == {" "}

\* [0-9A-Za-z_.+-]
TokenChars == Digits \cup Letters \cup {"_", ".", "+", "-"}

\* The characters a requirement specifier starts with: [<>=!~]
SpecStart == {"<", ">", "=", "!", "~"}

\* A specifier parse_requirements can produce: group 3 of its pattern,
\* stripped; empty when the line holds a bare name.
IsRequirementSpec(s) ==
  s = <<>> \/ (Head(s) \in SpecStart /\ s[Len(s)] \notin Whitespace)

\* re.match(r"^==\s*([0-9A-Za-z_.+-]+)$", spec) without the final anchor:
\* the token is the longest run of token characters.
PinnedMatchUnanchored(spec) ==
  IF ~StartsWith(spec, <<"=", "=">>) THEN NoMatch
  ELSE LET rest == Drop(spec, 2)
           tok == Drop(rest, Span(rest, Whitespace))
           n == Span(tok, TokenChars)
       IN  IF n > 0 THEN Match(SubSeq(tok, 1, n)) ELSE NoMatch

\* re.match(r"^==\s*([0-9A-Za-z_.+-]+)$", spec)
PinnedMatch(spec) ==
  IF ~StartsWith(spec, <<"=", "=">>) THEN NoMatch
  ELSE LET rest == Drop(spec, 2)
           tok == Drop(rest, Span(rest, Whitespace))
       IN  IF tok # <<>> /\ AllIn(tok, TokenChars) THEN Match(tok) ELSE NoMatch

\* [a-zA-Z0-9.]
PreChars == Digits \cup Letters \cup {"."}

IsDigits(s) == s # <<>> /\ AllIn(s, Digits)

\* t as a whole matches \d+\.\d+\.\d+(-[a-zA-Z0-9.]+)? : the two dots are at
\* i and j, and the third number ends at k.
FullSemver(t) ==
  \E i, j, k \in 1..Len(t) :
    /\ i < j
    /\ j < k
    /\ t[i] = "."
    /\ t[j] = "."
    /\ IsDigits(SubSeq(t, 1, i - 1))
    /\ IsDigits(SubSeq(t, i + 1, j - 1))
    /\ IsDigits(SubSeq(t, j + 1, k))
    /\ \/ k = Len(t)
       \/ k + 1 < Len(t) /\ t[k + 1] = "-" /\ AllIn(SubSeq(t, k + 2, Len(t)), PreChars)

\* re.search(r"(\d+\.\d+\.\d+(-[a-zA-Z0-9.]+)?)$", spec): the leftmost
\* position from which the rest of the specifier is a literal version.
VersionSearch(spec) ==
  LET starts == {i \in 1..Len(spec) : FullSemver(Drop(spec, i - 1))}
  IN  IF starts = {} THEN NoMatch
      ELSE LET i == CHOOSE k \in starts : \A m \in starts : k <= m
           IN  Match(Drop(spec, i - 1))

(***************************************************************************)
(* packaging.version.Version, for version strings over the digits and the  *)
(* characters ".", "-", "v", "a", "x": an optional "v", the release        *)
(* segments, an optional pre-release "a" and an optional post-release      *)
(* "-N".  A parsed version is [ok, rel, pre, post]; pre and post are -1    *)
(* when the version has none.                                              *)
(***************************************************************************)
Invalid == [ok |-> FALSE, rel |-> <<>>, pre |-> -1, post |-> -1]

VersionSeps == {"-", "_", "."}

\* (?:\.[0-9]+)* : the characters consumed and the segments read.
RECURSIVE RelTail(_)
RelTail(s) ==
  IF Len(s) >= 2 /\ s[1] = "." /\ s[2] \in Digits
  THEN LET k == Span(Tail(s), Digits)
           r == RelTail(Drop(s, k + 1))
       IN  [n |-> k + 1 + r.n, segs |-> <<ToNat(SubSeq(s, 2, k + 1))>> \o r.segs]
  ELSE [n |-> 0, segs |-> <<>>]

\* The release with its trailing zero segments dropped, as the comparison
\* key of a Version has it.
RECURSIVE StripZeros(_)
StripZeros(segs) ==
  IF segs # <<>> /\ segs[Len(segs)] = 0
  THEN StripZeros(SubSeq(segs, 1, Len(segs) - 1))
  ELSE segs

\* The digits of a pre-release: right behind the letter, or behind one
\* separator; none is the number 0.
PreNumber(lead, after) ==
  IF Span(after, Digits) > 0
  THEN [n |-> lead + 1 + Span(after, Digits),
        num |-> ToNat(SubSeq(after, 1, Span(after, Digits)))]
  ELSE IF after # <<>> /\ Head(after) \in VersionSeps /\ Span(Tail(after), Digits) > 0
  THEN [n |-> lead + 2 + Span(Tail(after), Digits),
        num |-> ToNat(SubSeq(after, 2, Span(Tail(after), Digits) + 1))]
  ELSE [n |-> lead + 1, num |-> 0]

\* The pre-release whose letter is behind lead characters of r.
PreAt(r, lead) ==
  IF Len(r) > lead /\ r[lead + 1] = "a" THEN PreNumber(lead, Drop(r, lead + 1))
  ELSE [n |-> 0, num |-> -1]

\* The pre-release at the head of r: [n |-> characters consumed, num].
PreRelease(r) ==
  PreAt(r, IF Len(r) >= 2 /\ r[1] \in VersionSeps /\ r[2] = "a" THEN 1 ELSE 0)

\* The post-release "-N" at the head of r.
PostDigits(r, d) ==
  IF d > 0 THEN [n |-> d + 1, num |-> ToNat(SubSeq(r, 2, d + 1))]
  ELSE [n |-> 0, num |-> -1]

PostRelease(r) ==
  PostDigits(r, IF r # <<>> /\ Head(r) = "-" THEN Span(Tail(r), Digits) ELSE 0)

\* The version of release rel, pre-release pre, and what follows it.
WithPost(rel, pre, post, r2) ==
  IF Drop(r2, post.n) # <<>> THEN Invalid
  ELSE [ok |-> TRUE, rel |-> StripZeros(rel), pre |-> pre.num, post |-> post.num]

WithPre(rel, pre, r) == WithPost(rel, pre, PostRelease(Drop(r, pre.n)), Drop(r, pre.n))

WithRelease(s1, n1, tl) ==
  IF n1 = 0 THEN Invalid
  ELSE WithPre(<<ToNat(SubSeq(s1, 1, n1))>> \o tl.segs,
               PreRelease(Drop(s1, n1 + tl.n)), Drop(s1, n1 + tl.n))

Unprefixed(s1) == WithRelease(s1, Span(s1, Digits), RelTail(Drop(s1, Span(s1, Digits))))

ParseVersion(s) == Unprefixed(IF s # <<>> /\ Head(s) = "v" THEN Tail(s) ELSE s)

\* Python's order on tuples of integers.
RECURSIVE TupleLess(_, _)
TupleLess(a, b) ==
  IF b = <<>> THEN FALSE
  ELSE IF a = <<>> THEN TRUE
  ELSE IF Head(a) = Head(b) THEN TupleLess(Tail(a), Tail(b))
  ELSE Head(a) < Head(b)

\* A pre-release sorts before the release: no pre-release is +infinity.
PreLess(p, q) == p # -1 /\ (q = -1 \/ p < q)

\* a < b on parsed versions: by release, pre-release, post-release.
VersionLess(a, b) ==
  \/ TupleLess(a.rel, b.rel)
  \/ a.rel = b.rel /\ PreLess(a.pre, b.pre)
  \/ a.rel = b.rel /\ a.pre = b.pre /\ a.post < b.post

(***************************************************************************)
(* Metadata extraction of the pinned backend.  An extraction result is     *)
(* [raised, val]: whether the function raised, and the value it returned.  *)
(***************************************************************************)
Raised == [raised |-> TRUE, val |-> Null]
Returned(j) == [raised |-> FALSE, val |-> j]

Unknown == <<"U", "n", "k", "n", "o", "w", "n">>

\* "License ::"
LicensePrefix == <<"L", "i", "c", "e", "n", "s", "e", " ", ":", ":">>

\* "Programming Language :: Python ::"
PythonPrefix ==
  <<"P", "r", "o", "g", "r", "a", "m", "m", "i", "n", "g", " ",
    "L", "a", "n", "g", "u", "a", "g", "e", " ", ":", ":", " ",
    "P", "y", "t", "h", "o", "n", " ", ":", ":">>

\* The elements a `for c in classifiers` visits that start with the prefix:
\* the strings of a list; a string is visited character by character, and
\* no single character starts with the prefix.
WithPrefix(cl, prefix) ==
  LET Hit(c) == StartsWith(c, prefix)
  IN  IF cl.t = "list" THEN SelectSeq(cl.v, Hit) ELSE <<>>

\* extract_license
extract_license(info) ==
  LET cl == GetOr(info.classifiers, List(<<>>))
      lics == WithPrefix(cl, LicensePrefix)
      plain == Get(info.license)
  IN  IF cl.t \in {"null", "num"} THEN Raised
      ELSE IF lics # <<>> THEN Returned(Str(Join(lics, <<";", " ">>)))
      ELSE IF Truthy(plain) THEN Returned(plain)
      ELSE Returned(Str(Unknown))

\* c.split("::")[-1]: the text after the last separator, the separators
\* being found from the left.
RECURSIVE LastPart(_, _)
LastPart(s, cur) ==
  IF s = <<>> THEN cur
  ELSE IF StartsWith(s, <<":", ":">>) THEN LastPart(Drop(s, 2), <<>>)
  ELSE LastPart(Tail(s), Append(cur, Head(s)))

\* The version labels of the Python classifiers, in document order.
RECURSIVE PythonLabels(_)
PythonLabels(cs) ==
  IF cs = <<>> THEN <<>>
  ELSE LET last == Strip(LastPart(Head(cs), <<>>))
       IN  (IF last # <<>> /\ \E i \in 1..Len(last) : last[i] \in Digits
            THEN <<last>> ELSE <<>>) \o PythonLabels(Tail(cs))

\* sorted(S) for a set of strings.
RECURSIVE SortedStrings(_)
SortedStrings(S) ==
  IF S = {} THEN <<>>
  ELSE LET m == CHOOSE x \in S : \A y \in S : y = x \/ StrLess(x, y)
       IN  <<m>> \o SortedStrings(S \ {m})

Range(q) == {q[i] : i \in 1..Len(q)}

\* extract_python_requires
extract_python_requires(info) ==
  LET rp == Get(info.requires_python)
      cl0 == GetOr(info.classifiers, List(<<>>))
      cl == IF Truthy(cl0) THEN cl0 ELSE List(<<>>)
      versions == PythonLabels(WithPrefix(cl, PythonPrefix))
  IN  IF Truthy(rp) THEN Returned(rp)
      ELSE IF cl.t = "num" THEN Raised
      ELSE IF versions # <<>>
      THEN Returned(Str(Join(SortedStrings(Range(versions)), <<",", " ">>)))
      ELSE Returned(Str(Unknown))

(***************************************************************************)
(* The registry adapters.  A registry response is [kind, doc]: the         *)
(* request fails ("neterr", "timeout"), answers a non-success status       *)
(* ("status") or a body that is not JSON ("badjson"), or answers the       *)
(* document doc ("doc").  An adapter returns                               *)
(*   [cur, latest, license, env, err, requested]                           *)
(* where cur is the match of the current version (not ok: None), err is    *)
(* whether the fifth value is an error text, and requested whether the     *)
(* registry was asked.                                                     *)
(***************************************************************************)
FailureKinds == {"neterr", "timeout", "status", "badjson"}

NotCandidate ==
  [cur |-> NoMatch, latest |-> Null, license |-> Null, env |-> Null,
   err |-> FALSE, requested |-> FALSE]

FetchError ==
  [cur |-> NoMatch, latest |-> Null, license |-> Null, env |-> Null,
   err |-> TRUE, requested |-> TRUE]

Fetched(cur, latest, license, env) ==
  [cur |-> cur, latest |-> latest, license |-> license, env |-> env,
   err |-> FALSE, requested |-> TRUE]

\* The body of the try block, given the two extractions.
PypiRecord(pinned_match, info, lic, py) ==
  IF lic.raised \/ py.raised THEN FetchError
  ELSE Fetched(pinned_match, info.version, lic.val, py.val)

PypiFetch(pinned_match, resp) ==
  IF resp.kind \in FailureKinds THEN FetchError
  ELSE IF ~resp.doc.hasInfo THEN FetchError
  ELSE IF resp.doc.info.version.t = "absent" THEN FetchError
  ELSE PypiRecord(pinned_match, resp.doc.info, extract_license(resp.doc.info),
                  extract_python_requires(resp.doc.info))

PypiCandidate(pinned_match, resp) ==
  IF ~pinned_match.ok THEN NotCandidate ELSE PypiFetch(pinned_match, resp)

\* check_pypi_updates
check_pypi_updates(spec, resp) == PypiCandidate(PinnedMatch(spec), resp)

\* The license of the range backend: the latest release's, else the
\* document's, else "Unknown"; a {type: ...} object is unwrapped.
npm_license(doc) ==
  LET a == Get(doc.vlicense)
      b == Get(doc.license)
      l == IF Truthy(a) THEN a ELSE IF Truthy(b) THEN b ELSE Str(Unknown)
  IN  IF l.t = "dict" THEN Str(l.v) ELSE l

NpmFetch(v_match, resp, latest) ==
  IF resp.kind \in FailureKinds THEN FetchError
  ELSE IF ~Truthy(latest) THEN FetchError
  ELSE Fetched(v_match, latest, npm_license(resp.doc),
               GetOr(resp.doc.node, Str(Unknown)))

NpmCandidate(v_match, resp) ==
  IF ~v_match.ok THEN NotCandidate ELSE NpmFetch(v_match, resp, Get(resp.doc.latest))

\* check_npm_updates
check_npm_updates(spec, resp) == NpmCandidate(VersionSearch(spec), resp)

(***************************************************************************)
(* main: the loop over the dependencies and the final report.              *)
(***************************************************************************)
\* c_v_p = current_str.lstrip('v'); l_v_p = latest_str.lstrip('v')
CleanVersion(s) == LStrip(s, "v")

\* The branch of the comparison with >= in place of >.
VerdictAtLeast(current_v, latest_v) ==
  IF ~VersionLess(latest_v, current_v) THEN "outdated"
  ELSE IF ~VersionLess(current_v, latest_v) THEN "ahead"
  ELSE "same"

\* if latest_v > current_v: ... elif current_v > latest_v: ...
Verdict(current_v, latest_v) ==
  IF VersionLess(current_v, latest_v) THEN "outdated"
  ELSE IF VersionLess(latest_v, current_v) THEN "ahead"
  ELSE "same"

Adapter(spec, resp) ==
  IF is_npm THEN check_npm_updates(spec, resp) ELSE check_pypi_updates(spec, resp)

\* What the loop body does with the adapter's result r: report the error,
\* skip, compare; a latest version that is no string has no lstrip, and the
\* AttributeError, which is not caught, ends the run.
Compared(r, current_v, latest_v) ==
  IF ~current_v.ok \/ ~latest_v.ok THEN "skip" ELSE Verdict(current_v, latest_v)

StepOf(r) ==
  IF r.err THEN "error"
  ELSE IF ~r.cur.ok \/ r.cur.v = <<>> \/ ~Truthy(r.latest) THEN "skip"
  ELSE IF r.latest.t # "str" THEN "abort"
  ELSE Compared(r, ParseVersion(CleanVersion(r.cur.v)),
                ParseVersion(CleanVersion(r.latest.v)))

Effect(d, r, step) ==
  /\ idx' = idx + 1
  /\ requests' = IF r.requested THEN Append(requests, d.name) ELSE requests
  /\ stderr' = IF step = "error" THEN Append(stderr, [name |-> d.name])
               ELSE stderr
  /\ outdated' =
       IF step = "outdated"
       THEN Append(outdated, [name |-> d.name, spec |-> d.spec,
                              latest |-> r.latest.v, license |-> r.license,
                              env |-> r.env])
       ELSE outdated
  /\ warnings' =
       IF step = "ahead"
       THEN Append(warnings, [name |-> d.name, current |-> r.cur.v,
                              latest |-> r.latest.v])
       ELSE warnings
  /\ pc' = IF step = "abort" THEN "crashed" ELSE pc

Iteration(d, r) == Effect(d, r, StepOf(r))

\* One iteration of `for name, spec in deps.items()`.
ProcessDep ==
  /\ pc = "loop"
  /\ idx < Len(deps)
  /\ Iteration(deps[idx + 1],
               Adapter(deps[idx + 1].spec, registry[deps[idx + 1].name]))
  /\ UNCHANGED <<is_npm, deps, registry, stdout>>

\* sorted(outdated, key=lambda x: x[0].lower()): a stable sort, so a row goes
\* behind the rows whose key is not greater than its own.
RECURSIVE InsertRow(_, _)
InsertRow(q, r) ==
  IF q = <<>> THEN <<r>>
  ELSE IF StrLess(Lower(r.name), Lower(Head(q).name)) THEN <<r>> \o q
  ELSE <<Head(q)>> \o InsertRow(Tail(q), r)

RECURSIVE SortedRows(_)
SortedRows(rows) ==
  IF rows = <<>> THEN <<>>
  ELSE InsertRow(SortedRows(SubSeq(rows, 1, Len(rows) - 1)), rows[Len(rows)])

\* license_[:43]
LicenseWidth == 43

Truncate(s, n) == IF Len(s) <= n THEN s ELSE SubSeq(s, 1, n)

\* The lines of the warnings block.
WarningsBlock ==
  IF warnings = <<>> THEN <<>>
  ELSE <<[k |-> "separator"], [k |-> "warnings-title"], [k |-> "separator"]>>
       \o [i \in 1..Len(warnings) |->
             [k |-> "warning", name |-> warnings[i].name,
              current |-> warnings[i].current, latest |-> warnings[i].latest]]
       \o <<[k |-> "separator"]>>

\* The table line of a row; the license is cut to its column.
RowLine(r) ==
  [k |-> "row", name |-> r.name, spec |-> r.spec, latest |-> r.latest,
   license |-> Truncate(r.license.v, LicenseWidth), env |-> r.env]

\* The rows print one by one; a license that is no string cannot be sliced
\* and formatted: the TypeError ends the run after the rows before it.
Printable(rows) ==
  LET bad == {i \in 1..Len(rows) : rows[i].license.t # "str"}
  IN  IF bad = {} THEN Len(rows)
      ELSE (CHOOSE i \in bad : \A j \in bad : i <= j) - 1

\* The end of main: the warnings block, then the "up to date" line or the
\* table.
Finish ==
  /\ pc = "loop"
  /\ idx = Len(deps)
  /\ LET rows == SortedRows(outdated)
         n == Printable(rows)
     IN  IF outdated = <<>>
         THEN /\ stdout' = stdout \o WarningsBlock \o <<[k |-> "up-to-date"]>>
              /\ pc' = "done"
         ELSE /\ stdout' = stdout \o WarningsBlock
                             \o <<[k |-> "header"], [k |-> "rule"]>>
                             \o [i \in 1..n |-> RowLine(rows[i])]
              /\ pc' = IF n = Len(rows) THEN "done" ELSE "crashed"
  /\ UNCHANGED <<is_npm, deps, registry, idx, outdated, warnings, stderr, requests>>

Next == ProcessDep \/ Finish

(***************************************************************************)
(* The inputs: a manifest (the mapping its parser produced, in manifest    *)
(* order) and the registry's answer for each of its names.                 *)
(***************************************************************************)
\* Every string over the alphabet of length at most n.
Strings(alphabet, n) == UNION {[1..k -> alphabet] : k \in 0..n}

\* Every sequence of distinct elements of S of length at most n.
DistinctSeqs(S, n) ==
  {q \in Strings(S, n) : \A i, j \in 1..Len(q) : q[i] = q[j] => i = j}

\* The decimal digits of a number.
DigitChar(d) == CHOOSE c \in Digits : DigitVal(c) = d

RECURSIVE NatStr(_)
NatStr(n) == IF n < 10 THEN <<DigitChar(n)>> ELSE NatStr(n \div 10) \o <<DigitChar(n % 10)>>

\* The release "N(.N)*" of a tuple of segments.
RelStr(t) == Join([i \in 1..Len(t) |-> NatStr(t[i])], <<".">>)

NoInfo == [version |-> Absent, classifiers |-> Absent, license |-> Absent,
           requires_python |-> Absent]

NoDoc == [hasInfo |-> FALSE, info |-> NoInfo,
          latest |-> Absent, vlicense |-> Absent, license |-> Absent,
          node |-> Absent]

Failure(kind) == [kind |-> kind, doc |-> NoDoc]

\* A pinned-backend document: {"info": {...}}
PypiDoc(version, classifiers, license, requires_python) ==
  [kind |-> "doc",
   doc |-> [hasInfo |-> TRUE,
            info |-> [version |-> version, classifiers |-> classifiers,
                      license |-> license, requires_python |-> requires_python]]]

\* A pinned-backend document without "info".
PypiNoInfo == [kind |-> "doc", doc |-> [hasInfo |-> FALSE, info |-> NoInfo]]

\* A range-backend document: dist-tags.latest, versions[latest].license,
\* versions[latest].engines.node and the top-level license.
NpmDoc(latest, vlicense, license, node) ==
  [kind |-> "doc",
   doc |-> [latest |-> latest, vlicense |-> vlicense, license |-> license,
            node |-> node]]

Manifest(names, specs) ==
  {q \in [1..Len(names) -> [name : Range(names), spec : specs]] :
     \A i \in 1..Len(names) : q[i].name = names[i]}

\* The initial states of a run over the manifests of the given names and
\* specifiers, the registry answering from the given responses.
Start(npm, nameSeqs, specs, responses) ==
  /\ is_npm = npm
  /\ \E names \in nameSeqs :
       /\ deps \in Manifest(names, specs)
       /\ registry \in [Range(names) -> responses]
  /\ idx = 0
  /\ outdated = <<>>
  /\ warnings = <<>>
  /\ stderr = <<>>
  /\ stdout = <<>>
  /\ requests = <<>>
  /\ pc = "loop"

MIT == <<"M", "I", "T">>
V090 == <<"0", ".", "9", ".", "0">>
V100 == <<"1", ".", "0", ".", "0">>
V120 == <<"1", ".", "2", ".", "0">>
V150 == <<"1", ".", "5", ".", "0">>
V200 == <<"2", ".", "0", ".", "0">>

\* Names; two of them differ only in letter case.
Names == {<<"a", "b">>, <<"A", "b">>, <<"b">>}

\* --- the run as a whole: both dialects, failing and answering registry ---
PinnedSpecs == {<<"=", "=">> \o V100, <<">", "=", "1", ".", "0">>}

PinnedResponses ==
  {Failure("timeout"), Failure("status"), PypiNoInfo}
  \cup {PypiDoc(v, Absent, Str(MIT), Absent) :
          v \in {Absent, Null, Str(<<>>), Num, Str(V090), Str(V100), Str(V120)}}

RangeSpecs == {<<"^">> \o V100, <<"*">>}

RangeResponses ==
  {Failure("neterr"), Failure("badjson")}
  \cup {NpmDoc(v, Dict(MIT), Absent, Absent) :
          v \in {Absent, Null, Str(<<>>), Num, Str(V090), Str(V100), Str(V120)}}

Init ==
  \/ Start(FALSE, DistinctSeqs(Names, MaxDeps), PinnedSpecs, PinnedResponses)
  \/ Start(TRUE, DistinctSeqs(Names, MaxDeps), RangeSpecs, RangeResponses)

Spec == Init /\ [][Next]_vars

\* --- the comparison: one pinned dependency, the current and the latest ---
\* --- version drawn independently from the same set of version strings  ---
SegmentValues == {0, 1, 10}

Releases == UNION {[1..k -> SegmentValues] : k \in 1..MaxRelLen}

VPrefixes == {<<>>, <<"v">>, <<"v", "v">>}

PreSuffixes == {<<>>, <<"-", "a", "1">>}

\* Strings that are no version ("x1", "1.") and a post-release ("1-1").
OtherVersions == {<<"x", "1">>, <<"1", ".">>, <<"1", "-", "1">>}

VersionStrings ==
  {p \o RelStr(r) \o q : p \in VPrefixes, r \in Releases, q \in PreSuffixes}
  \cup OtherVersions

CompareSpecs == {<<"=", "=">> \o v : v \in VersionStrings}

CompareResponses == {PypiDoc(Str(v), Absent, Str(MIT), Absent) : v \in VersionStrings}

\* A few of them for the manifests of two dependencies.
FewVersions == {<<"1">>, <<"1", ".", "0">>, <<"v", "v", "1", "0">>, <<"x", "1">>}

InitCompare ==
  \/ Start(FALSE, {<<<<"b">>>>}, CompareSpecs, CompareResponses)
  \/ Start(FALSE, {q \in DistinctSeqs(Names, 2) : Len(q) = 2},
           {<<"=", "=">> \o v : v \in FewVersions},
           {PypiDoc(Str(v), Absent, Str(MIT), Absent) : v \in FewVersions})

SpecCompare == InitCompare /\ [][Next]_vars

\* --- the pinned dialect's specifiers: every specifier the manifest parser ---
\* --- can produce over a small alphabet                                   ---
PinnedAlphabet == {"=", ">", " ", "1", ".", ","}

AllPinnedSpecs == {sp \in Strings(PinnedAlphabet, MaxSpecLen) : IsRequirementSpec(sp)}

InitPinned ==
  Start(FALSE, {<<<<"b">>>>}, AllPinnedSpecs,
        {Failure("timeout"), PypiDoc(Str(<<"2">>), Absent, Absent, Absent)})

SpecPinned == InitPinned /\ [][Next]_vars

\* --- the range dialect's specifiers ---
SampleRangeSpecs ==
  {<<"^">> \o V100, <<"~">> \o V100, V100, <<"=">> \o V100,
   <<"^">> \o V100 \o <<"-", "a", ".", "1">>,
   <<"*">>, <<"1", ".", "x">>, <<"1", ".", "0", ".", "x">>,
   <<"l", "a", "t", "e", "s", "t">>, <<"^", "1", ".", "0">>,
   <<">", "=", "1", ".", "0", ".", "0", " ", "<", "2", ".", "0", ".", "0">>,
   <<"1", ".", "0", ".", "0", " ", "-", " ", "2", ".", "0", ".", "0">>,
   <<"h", "t", "t", "p", ":", "/", "/", "h", "/", "p", "-", "1", ".", "0", ".", "0">>,
   <<"g", "i", "t", ":", "/", "/", "h", "/", "r", "#", "v", "1", ".", "0", ".", "0">>,
   <<"g", "i", "t", ":", "/", "/", "h", "/", "r", "#", "m", "a", "i", "n">>}

InitRange ==
  Start(TRUE, {<<<<"b">>>>}, SampleRangeSpecs,
        {Failure("timeout")}
        \cup {NpmDoc(Str(v), Absent, Str(MIT), Str(<<">", "=", "1", "8">>)) :
                v \in {V090, V100, V150, V200}})

SpecRange == InitRange /\ [][Next]_vars

\* --- the pinned backend's metadata: one outdated dependency, the fields ---
\* --- of the release-info document varying                              ---
MaxClassifiers == 2

LicenseMIT == <<"L", "i", "c", "e", "n", "s", "e", " ", ":", ":", " ", "M", "I", "T">>
LicenseBSD == <<"L", "i", "c", "e", "n", "s", "e", " ", ":", ":", " ", "B", "S", "D">>
Python39 == PythonPrefix \o <<" ", "3", ".", "9">>
Python310 == PythonPrefix \o <<" ", "3", ".", "1", "0">>
Python3Only == PythonPrefix \o <<" ", "3", " ", ":", ":", " ", "O", "n", "l", "y">>
TopicX == <<"T", "o", "p", "i", "c", " ", ":", ":", " ", "x">>

SampleClassifiers == {LicenseMIT, LicenseBSD, Python39, Python310, Python3Only, TopicX}

MetaResponses ==
  {PypiDoc(Str(V200), c, l, rp) :
     c \in {Absent, Null} \cup {List(q) : q \in Strings(SampleClassifiers, MaxClassifiers)},
     l \in {Absent, Null, Str(<<>>), Str(MIT), Num},
     rp \in {Absent, Null, Str(<<>>), Str(<<">", "=", "3", ".", "8">>)}}

InitMeta == Start(FALSE, {<<<<"b">>>>}, {<<"=", "=">> \o V100}, MetaResponses)

SpecMeta == InitMeta /\ [][Next]_vars

(***************************************************************************)
(* What a run shows of each dependency.                                    *)
(***************************************************************************)
\* The dependencies the loop has taken from the manifest so far.
Processed == 1..idx

Count(q, n) == Cardinality({i \in 1..Len(q) : q[i].name = n})

RowsFor(n) == Count(outdated, n)
WarningsFor(n) == Count(warnings, n)
ErrorsFor(n) == Count(stderr, n)
RequestsFor(n) == Cardinality({i \in 1..Len(requests) : requests[i] = n})

\* Skipped: no table row, no warning and no line on the error stream.
Silent(n) == RowsFor(n) = 0 /\ WarningsFor(n) = 0 /\ ErrorsFor(n) = 0

\* The current version the dialect's specifier parser finds.
CurrentOf(d) == IF is_npm THEN VersionSearch(d.spec) ELSE PinnedMatch(d.spec)

\* The field of the response document that holds the latest version.
LatestField(resp) ==
  IF is_npm THEN resp.doc.latest
  ELSE IF resp.doc.hasInfo THEN resp.doc.info.version ELSE Absent

IsVersionText(j) == j.t = "str" /\ j.v # <<>>

\* The registry's answer is a failure of the adapter: the request fails, or
\* the document does not give the latest version as a text.
AdapterFailure(resp) ==
  resp.kind \in FailureKinds \/ ~IsVersionText(LatestField(resp))

\* The document arrived and gives no latest version: the field is missing,
\* null or empty.
NoLatestVersion(resp) ==
  /\ resp.kind = "doc"
  /\ is_npm \/ resp.doc.hasInfo
  /\ LatestField(resp).t \in {"absent", "null"} \/ LatestField(resp) = Str(<<>>)

RowLines == SelectSeq(stdout, LAMBDA l : l.k = "row")

RowNames(rows) == [i \in 1..Len(rows) |-> rows[i].name]

Reorderings(q) ==
  {[i \in 1..Len(q) |-> q[f[i]]] :
     f \in {g \in [1..Len(q) -> 1..Len(q)] :
              \A i, j \in 1..Len(q) : g[i] = g[j] => i = j}}

(***************************************************************************)
(* C1.  A failure of the registry adapter for one dependency is isolated:  *)
(* the dependency yields exactly one line on the error stream, no row and  *)
(* no warning, the run does not abort, and it ends only after every        *)
(* dependency of the manifest was processed.                               *)
(***************************************************************************)
C1_FailureIsolated ==
  /\ pc # "crashed"
  /\ pc = "done" => idx = Len(deps)
  /\ \A i \in Processed :
       CurrentOf(deps[i]).ok /\ AdapterFailure(registry[deps[i].name])
       => /\ ErrorsFor(deps[i].name) = 1
          /\ RowsFor(deps[i].name) = 0
          /\ WarningsFor(deps[i].name) = 0

(***************************************************************************)
(* C2.  A dependency whose specifier qualifies, whose fetch succeeds and   *)
(* whose two versions parse gets exactly one classification: a row (with   *)
(* the latest version, the license and the runtime requirement) iff        *)
(* latest > current, a warning (with both versions) iff current > latest,  *)
(* neither when they are equal, and never an error line; no dependency     *)
(* gets more than one of row, warning and error line.                      *)
(***************************************************************************)
C2_OneClassification ==
  \A i \in 1..Len(deps) :
    LET d == deps[i]
        resp == registry[d.name]
        cur == CurrentOf(d)
        latest == LatestField(resp)
        current_v == ParseVersion(CleanVersion(cur.v))
        latest_v == ParseVersion(CleanVersion(latest.v))
    IN  /\ RowsFor(d.name) + WarningsFor(d.name) + ErrorsFor(d.name) <= 1
        /\ (/\ i \in Processed
            /\ cur.ok
            /\ ~Adapter(d.spec, resp).err
            /\ IsVersionText(latest)
            /\ current_v.ok
            /\ latest_v.ok)
           => /\ RowsFor(d.name) = 1 <=> VersionLess(current_v, latest_v)
              /\ WarningsFor(d.name) = 1 <=> VersionLess(latest_v, current_v)
              /\ ErrorsFor(d.name) = 0
              /\ \A k \in 1..Len(outdated) :
                   outdated[k].name = d.name
                   => /\ outdated[k].latest = latest.v
                      /\ outdated[k].license = Adapter(d.spec, resp).license
                      /\ outdated[k].env = Adapter(d.spec, resp).env
              /\ \A k \in 1..Len(warnings) :
                   warnings[k].name = d.name
                   => /\ warnings[k].current = cur.v
                      /\ warnings[k].latest = latest.v

\* A finished run of two dependencies, one outdated and one ahead of the
\* registry.
C2_Witness ==
  /\ pc = "done"
  /\ Len(deps) = 2
  /\ Len(outdated) = 1
  /\ Len(warnings) = 1
  /\ outdated[1].name # warnings[1].name

\* "==" and, right behind it, one token up to the end of the specifier.
IsExactPin(sp) ==
  /\ Len(sp) > 2
  /\ sp[1] = "="
  /\ sp[2] = "="
  /\ \A i \in 3..Len(sp) : sp[i] \in TokenChars

(***************************************************************************)
(* C3, as stated.  In the pinned dialect the registry is asked for a       *)
(* dependency iff its specifier is exactly "==" followed by one token over *)
(* [0-9A-Za-z_.+-]; every other dependency is skipped silently.            *)
(***************************************************************************)
C3_ExactPinOnly ==
  \A i \in Processed :
    /\ RequestsFor(deps[i].name) = 1 <=> IsExactPin(deps[i].spec)
    /\ ~IsExactPin(deps[i].spec)
       => RequestsFor(deps[i].name) = 0 /\ Silent(deps[i].name)

\* "==", whitespace or none, and one token up to the end of the specifier.
IsSpacedPin(sp) ==
  \E k \in 2..(Len(sp) - 1) :
    /\ sp[1] = "="
    /\ sp[2] = "="
    /\ \A i \in 3..k : sp[i] \in Whitespace
    /\ \A i \in (k + 1)..Len(sp) : sp[i] \in TokenChars

(***************************************************************************)
(* C3, amended.  In the pinned dialect the registry is asked for a         *)
(* dependency iff its specifier is "==", then optional whitespace, then    *)
(* one token over [0-9A-Za-z_.+-] up to the end of the specifier; every    *)
(* other dependency is skipped silently, with no request.                  *)
(***************************************************************************)
C3_PinOnly ==
  \A i \in Processed :
    /\ RequestsFor(deps[i].name) = 1 <=> IsSpacedPin(deps[i].spec)
    /\ ~IsSpacedPin(deps[i].spec)
       => RequestsFor(deps[i].name) = 0 /\ Silent(deps[i].name)

\* The dependency pinned as "== 1" was looked up.
C3_Witness ==
  /\ pc = "done"
  /\ deps[1].spec = <<"=", "=", " ", "1">>
  /\ requests = <<deps[1].name>>

\* A prefix operator, or none, and one literal version.
RangePrefixes == {<<>>, <<"^">>, <<"~">>, <<"=">>}

IsPrefixedLiteral(sp) ==
  \E p \in RangePrefixes :
    StartsWith(sp, p) /\ FullSemver(Drop(sp, Len(p)))

(***************************************************************************)
(* C4.  In the range dialect the registry is asked only for a specifier    *)
(* made of a prefix operator (caret, tilde, exact, or none) and one        *)
(* literal version MAJOR.MINOR.PATCH[-prerelease]; wildcards, URL and tag  *)
(* references and ranges of several bounds are skipped with no request.    *)
(***************************************************************************)
C4_PrefixedLiteralOnly ==
  \A i \in Processed :
    /\ RequestsFor(deps[i].name) = 1 => IsPrefixedLiteral(deps[i].spec)
    /\ ~IsPrefixedLiteral(deps[i].spec)
       => RequestsFor(deps[i].name) = 0 /\ Silent(deps[i].name)

(***************************************************************************)
(* C5.  In both backends a document that gives no latest version (the      *)
(* field missing, null or empty) is a fetch failure: one line on the error *)
(* stream for the dependency, no row and no warning.                       *)
(***************************************************************************)
C5_NoLatestIsReported ==
  \A i \in Processed :
    CurrentOf(deps[i]).ok /\ NoLatestVersion(registry[deps[i].name])
    => /\ ErrorsFor(deps[i].name) = 1
       /\ RowsFor(deps[i].name) = 0
       /\ WarningsFor(deps[i].name) = 0

(***************************************************************************)
(* C6.  The printed rows ascend by name compared case-insensitively, and   *)
(* their order depends only on which dependencies are outdated: had the    *)
(* same dependencies been processed in any other order, the same rows      *)
(* would print in the same order.                                          *)
(***************************************************************************)
C6_RowOrderFixed ==
  pc = "done"
  => /\ \A i, j \in 1..Len(RowLines) :
          i < j => ~StrLess(Lower(RowLines[j].name), Lower(RowLines[i].name))
     /\ \A q \in Reorderings(outdated) :
          RowNames(SortedRows(q)) = RowNames(RowLines)

\* The license as stated, read from the document.
ClaimedLicense(info) ==
  LET cl == IF info.classifiers.t = "list" THEN info.classifiers.v ELSE <<>>
      lics == SelectSeq(cl, LAMBDA c : StartsWith(c, LicensePrefix))
  IN  IF lics # <<>> THEN Str(Join(lics, <<";", " ">>))
      ELSE IF info.license.t \notin {"absent", "null"} /\ info.license # Str(<<>>)
      THEN info.license
      ELSE Str(Unknown)

(***************************************************************************)
(* C7.  The license of a pinned-backend document is its license            *)
(* classifiers, in document order and joined by "; ", when it has any;     *)
(* otherwise its plain license field when present and non-empty; otherwise *)
(* "Unknown".  Classifiers that are absent, null or empty never make the   *)
(* fetch fail.                                                             *)
(***************************************************************************)
C7_LicenseExtraction ==
  \A i \in Processed :
    LET info == registry[deps[i].name].doc.info
    IN  /\ ErrorsFor(deps[i].name) = 0
        /\ \A k \in 1..Len(outdated) :
             outdated[k].name = deps[i].name
             => outdated[k].license = ClaimedLicense(info)

\* The runtime requirement as stated, the labels ordered as versions.
RECURSIVE SortedAsVersions(_)
SortedAsVersions(S) ==
  IF S = {} THEN <<>>
  ELSE LET m == CHOOSE x \in S :
                  \A y \in S : ~VersionLess(ParseVersion(y), ParseVersion(x))
       IN  <<m>> \o SortedAsVersions(S \ {m})

ClaimedRuntime(info) ==
  LET rp == info.requires_python
      cl == IF info.classifiers.t = "list" THEN info.classifiers ELSE List(<<>>)
      labels == Range(PythonLabels(WithPrefix(cl, PythonPrefix)))
  IN  IF rp.t \notin {"absent", "null"} /\ rp # Str(<<>>) THEN rp
      ELSE IF labels # {} THEN Str(Join(SortedAsVersions(labels), <<",", " ">>))
      ELSE Str(Unknown)

(***************************************************************************)
(* C8.  The runtime requirement of a pinned-backend document is its        *)
(* requires_python field when present and non-empty; otherwise the Python  *)
(* versions its classifiers list, without duplicates, ascending as         *)
(* versions (3.9 before 3.10) and joined by ", "; otherwise "Unknown".     *)
(***************************************************************************)
C8_RuntimeExtraction ==
  \A k \in 1..Len(outdated) :
    outdated[k].env = ClaimedRuntime(registry[outdated[k].name].doc.info)

\* A version string less one leading "v"; a canonical version starts with
\* its release.
WithoutOneV(v) == IF v # <<>> /\ Head(v) = "v" THEN Tail(v) ELSE v

IsCanonical(v) == v # <<>> /\ Head(v) \in Digits /\ ParseVersion(v).ok

(***************************************************************************)
(* C9.  Exactly one leading "v" is removed from each version string before *)
(* parsing; a string that is no canonical version once that one character  *)
(* is removed (two or more leading "v", another leading letter) does not   *)
(* parse, and the dependency is skipped: no row, no warning, no error.     *)
(***************************************************************************)
C9_OnePrefixCharacter ==
  \A i \in Processed :
    LET cur == CurrentOf(deps[i])
        latest == LatestField(registry[deps[i].name])
    IN  (/\ cur.ok
         /\ IsVersionText(latest)
         /\ \/ ~IsCanonical(WithoutOneV(cur.v))
            \/ ~IsCanonical(WithoutOneV(latest.v)))
        => Silent(deps[i].name)

(***************************************************************************)
(* C10.  At the end of a run exactly one of the two final outputs was      *)
(* printed, after the warnings block if there is one: the table with a row *)
(* for every outdated dependency when there is one, the "up to date" line  *)
(* otherwise.                                                              *)
(***************************************************************************)
C10_OneFinalOutput ==
  pc \in {"done", "crashed"}
  => IF outdated = <<>>
     THEN stdout = WarningsBlock \o <<[k |-> "up-to-date"]>>
     ELSE /\ Len(stdout) = Len(WarningsBlock) + 2 + Len(outdated)
          /\ SubSeq(stdout, 1, Len(WarningsBlock) + 2)
               = WarningsBlock \o <<[k |-> "header"], [k |-> "rule"]>>
          /\ Len(RowLines) = Len(outdated)

====
